---------------------------- MODULE Spec2Model ----------------------------
(***************************************************************************)
(* Model of the simulation engine of inputsimulator (src/src/simulator.rs):*)
(* the bounded retry harness, the event emitter, the device manager and    *)
(* the mode state machine simulate_keys, run on one simulation thread next *)
(* to a control surface that writes the shared cells.                      *)
(***************************************************************************)
EXTENDS Integers, Sequences, FiniteSets, TLC

VARIABLES
    running,        \* Arc<Mutex<bool>>: RunningFlag
    interval_ms,    \* Arc<Mutex<u64>>: IntervalMs
    selected_keys,  \* Arc<Mutex<Vec<EventCode>>>: SelectedKeys
    key_behavior,   \* Arc<Mutex<KeyBehaviorMode>>
    hold_behavior,  \* HoldBehaviorMode, passed by value to simulate_keys
    pc,             \* position of the simulation thread
    uinput_device,  \* None, or Some(capability set of the created device)
    keys,           \* snapshot of selected_keys (simulate_keys, line 176)
    mode,           \* snapshot of key_behavior (simulate_keys, line 177)
    interval,       \* Hold/Cycle: the interval read at the top of the pass
    kidx,           \* Hold/Cycle: position of `for key in &keys`
    idx,            \* write_key_events: position in the batch being written
    max_retries,    \* retry: the max_retries argument of the running call
    rt,             \* retry: loop state of the running call
    wcall,          \* the write_key_events call running or last returned
    trace,          \* events the device accepted and loop sleeps, in order
    iters,          \* number of loop passes started
    result,         \* None until simulate_keys (or retry) has returned
    held,           \* the mutexes whose guard the simulation thread holds
    device,         \* setup_device: None, or Some(codes enabled on `device`)
    app_data        \* initialize_simulation_keys: the AppData argument

vars == <<running, interval_ms, selected_keys, key_behavior, hold_behavior,
          pc, uinput_device, keys, mode, interval, kidx, idx, max_retries,
          rt, wcall, trace, iters, result, held, device, app_data>>

----------------------------------------------------------------------------
(* Bounds of the model.                                                    *)

\* longest SelectedKeys list the control surface writes
MaxKeys == 2
\* loop passes (reads of RunningFlag that see true at a loop head) per run
MaxIter == 2
\* largest max_retries the retry harness is explored with on its own
MaxAttempts == 4
\* constants.rs sets MAX_RETRIES and MAX_DEVICE_INIT_RETRIES (imported at line
\* 19); the engine is explored with small values of both, and no property
\* depends on the value
MAX_RETRIES == 2
MAX_DEVICE_INIT_RETRIES == 2

----------------------------------------------------------------------------
(* Values.                                                                 *)

None == [tag |-> "None"]
Some(v) == [tag |-> "Some", val |-> v]
Ok(v) == [tag |-> "Ok", val |-> v]
Err(e) == [tag |-> "Err", err |-> e]

KeyCodes == {"KEY_A", "KEY_B"}
Intervals == {50, 60}

RECURSIVE SeqsUpTo(_, _)
SeqsUpTo(S, n) ==
    IF n = 0 THEN {<<>>}
    ELSE LET shorter == SeqsUpTo(S, n - 1)
         IN  shorter \cup {Append(s, x) : s \in {t \in shorter : Len(t) = n - 1}, x \in S}

KeyLists == SeqsUpTo(KeyCodes, MaxKeys)

\* evdev events: InputEvent::new(timeval, code, value)
KeyEvent(code, value) == [op |-> "key", code |-> code, value |-> value]
SynReport == [op |-> "syn", code |-> "SYN_REPORT", value |-> 0]
\* thread::sleep(Duration::from_millis(ms)) of the loop
Sleep(ms) == [op |-> "sleep", ms |-> ms]
SettleSleep == [op |-> "sleep", delay |-> "SIMULATION_HOLD_DELAY_MS"]

\* no AppData is in play outside initialize_simulation_keys
NoAppData == [selected_keys |-> <<>>, key_behavior |-> "Click"]

RECURSIVE SelectSeqOp(_, _)
SelectSeqOp(s, o) ==
    IF s = <<>> THEN <<>>
    ELSE IF Head(s).op = o THEN <<Head(s)>> \o SelectSeqOp(Tail(s), o)
         ELSE SelectSeqOp(Tail(s), o)

----------------------------------------------------------------------------
(* retry (lines 25-48).                                                    *)

\* the state of one call of retry before its first attempt; hist records the
\* outcome of every invocation of the operation, log the arguments given to
\* log_fn, sleeps the number of thread::sleep calls
RetryStart ==
    [attempt |-> 0, last_error |-> None, hist |-> <<>>, log |-> <<>>,
     sleeps |-> 0, ret |-> None]

\* a bug: log_fn and the sleep also after the final failed attempt
RetryAttemptObservesLast(r, max, outcome) ==
    IF outcome.tag = "Ok"
    THEN [r EXCEPT !.hist = Append(@, outcome), !.ret = outcome]
    ELSE LET r1 == [r EXCEPT !.hist = Append(@, outcome),
                             !.last_error = Some(outcome.err),
                             !.log = Append(@, r.attempt + 1),
                             !.sleeps = @ + 1,
                             !.attempt = @ + 1]
         IN  IF r1.attempt < max THEN r1
             ELSE [r1 EXCEPT !.ret = Err(r1.last_error.val)]

\* a bug: the first error is kept instead of the last
RetryAttemptKeepsFirst(r, max, outcome) ==
    IF outcome.tag = "Ok"
    THEN [r EXCEPT !.hist = Append(@, outcome), !.ret = outcome]
    ELSE LET retriable == r.attempt < max - 1
             r1 == [r EXCEPT !.hist = Append(@, outcome),
                             !.last_error = IF @ = None THEN Some(outcome.err) ELSE @,
                             !.log = IF retriable THEN Append(@, r.attempt + 1) ELSE @,
                             !.sleeps = IF retriable THEN @ + 1 ELSE @,
                             !.attempt = @ + 1]
         IN  IF r1.attempt < max THEN r1
             ELSE [r1 EXCEPT !.ret = Err(r1.last_error.val)]

\* one pass of `for attempt in 0..max_retries` with the operation's outcome,
\* and the Err(last_error.unwrap()) after the last pass
RetryAttempt(r, max, outcome) ==
    IF outcome.tag = "Ok"
    THEN [r EXCEPT !.hist = Append(@, outcome), !.ret = outcome]
    ELSE LET retriable == r.attempt < max - 1
             r1 == [r EXCEPT !.hist = Append(@, outcome),
                             !.last_error = Some(outcome.err),
                             !.log = IF retriable THEN Append(@, r.attempt + 1) ELSE @,
                             !.sleeps = IF retriable THEN @ + 1 ELSE @,
                             !.attempt = @ + 1]
         IN  IF r1.attempt < max THEN r1
             ELSE [r1 EXCEPT !.ret = Err(r1.last_error.val)]

\* outcomes of the operation the harness is explored with on its own
RetryOutcomes == {Ok("v1"), Ok("v2"), Err("e1"), Err("e2")}

----------------------------------------------------------------------------
(* The harness explored on its own: any max_retries >= 1, any outcomes.    *)

RetryInit ==
    /\ pc = "retry"
    /\ max_retries \in 1..MaxAttempts
    /\ rt = RetryStart
    /\ result = None
    /\ running = TRUE
    /\ interval_ms = 50
    /\ selected_keys = <<>>
    /\ key_behavior = "Click"
    /\ hold_behavior = "Continuous"
    /\ uinput_device = None
    /\ keys = <<>>
    /\ mode = "unset"
    /\ interval = 0
    /\ kidx = 1
    /\ idx = 1
    /\ wcall = [keys |-> <<>>, value |-> 0, written |-> <<>>, status |-> "none"]
    /\ trace = <<>>
    /\ iters = 0
    /\ held = {}
    /\ device = None
    /\ app_data = NoAppData

\* retry invokes operation() once more; the call returns when ret is set
RetryCall ==
    /\ pc = "retry"
    /\ \E outcome \in RetryOutcomes :
         /\ rt' = RetryAttempt(rt, max_retries, outcome)
         /\ pc' = IF rt'.ret # None THEN "retry_done" ELSE "retry"
         /\ result' = rt'.ret
    /\ UNCHANGED <<running, interval_ms, selected_keys, key_behavior,
                   hold_behavior, uinput_device, keys, mode, interval, kidx,
                   idx, max_retries, wcall, trace, iters>>
    /\ UNCHANGED <<held, device, app_data>>

RetryNext == RetryCall

SpecRetry == RetryInit /\ [][RetryNext]_vars

----------------------------------------------------------------------------
(* Event emitter (lines 50-81) and device manager (lines 84-128).          *)

\* a bug: `?` replaced by ignoring the error
TryIgnoresErr(ret) == FALSE

\* the `?` operator: an Err returns from the enclosing function at once
Try(ret) == ret.tag = "Err"

\* write_event_with_retry, line 55: map_err turns the failure of
\* device.write_event into SimulatorError::KeySimulation
WriteOutcomes ==
    {Ok("unit"), Err([kind |-> "KeySimulation", msg |-> "Failed event"])}

\* a bug: the synchronization event is written before the key events
WriteKeyEventsSyncFirst(ks, value) ==
    <<SynReport>> \o [i \in 1..Len(ks) |-> KeyEvent(ks[i], value)]

\* write_key_events: the events the call writes, in the order it writes them
WriteKeyEvents(ks, value) ==
    [i \in 1..Len(ks) |-> KeyEvent(ks[i], value)] \o <<SynReport>>

\* setup_device, lines 92-98: the capabilities that are always enabled
Baseline == {"BTN_LEFT", "BTN_RIGHT", "BTN_MIDDLE", "REL_X", "REL_Y"}

\* what the calls into evdev can do in one run of setup_device
SetupOutcomes == {"ok", "new_failed", "enable_failed", "create_failed"}

\* a bug: the selected keys are not enabled
EnabledBaselineOnly(sel) == Baseline

\* setup_device, lines 92-102: the codes enabled on the uninitialized device
\* when the guarded list is sel
Enabled(sel) == Baseline \cup {sel[i] : i \in 1..Len(sel)}

\* setup_device, line 105: create_from_device(&device)? on a device with the
\* codes dev enabled
CreateFromDevice(dev, o) ==
    IF o = "create_failed" THEN Err("create_from_device") ELSE Ok(dev)

\* setup_device: UninitDevice::new().unwrap() and every enable(..).unwrap()
\* panic on failure; create_from_device(..)? returns its error
SetupDevice(sel, o) ==
    CASE o = "new_failed" -> [tag |-> "Panic"]
      [] o = "enable_failed" -> [tag |-> "Panic"]
      [] OTHER -> CreateFromDevice(Enabled(sel), o)

\* a bug: the error of the last attempt is passed on as it is
SetupDeviceWithRetryErrUnmapped(e) == [kind |-> "Io", cause |-> e]

\* setup_device_with_retry, lines 121-127: map_err on exhaustion
SetupDeviceWithRetryErr(e) ==
    [kind |-> "DeviceInitialization", retries |-> MAX_DEVICE_INIT_RETRIES,
     cause |-> e]

----------------------------------------------------------------------------
(* simulate_keys (lines 163-247).                                          *)

\* line 230
Confirm == "KEY_NUMERIC_0"

WriteSites ==
    {"init_sync", "cont_press", "cont_heartbeat", "cont_release", "cyc_press",
     "cyc_release", "clk_confirm1", "clk_release1", "clk_confirm2",
     "clk_release2"}

\* a bug: Hold/Continuous returns without releasing
BatchKeysNoRelease(site) ==
    CASE site \in {"cont_press", "clk_release1", "clk_release2"} -> keys
      [] site \in {"cont_heartbeat", "cont_release"} -> <<>>
      [] site \in {"cyc_press", "cyc_release"} -> <<keys[kidx]>>
      [] site \in {"clk_confirm1", "clk_confirm2"} -> <<Confirm>>

\* a bug: Hold/Cycle releases the first key instead of the pressed one
BatchKeysCycleFirst(site) ==
    CASE site \in {"cont_press", "cont_release", "clk_release1", "clk_release2"} -> keys
      [] site = "cont_heartbeat" -> <<>>
      [] site = "cyc_press" -> <<keys[kidx]>>
      [] site = "cyc_release" -> <<keys[1]>>
      [] site \in {"clk_confirm1", "clk_confirm2"} -> <<Confirm>>

\* a bug: the batches of Hold/Continuous and Click are taken from the shared
\* list instead of the snapshot
BatchKeysReadsShared(site) ==
    CASE site \in {"cont_press", "cont_release", "clk_release1", "clk_release2"} -> selected_keys
      [] site = "cont_heartbeat" -> <<>>
      [] site \in {"cyc_press", "cyc_release"} -> <<keys[kidx]>>
      [] site \in {"clk_confirm1", "clk_confirm2"} -> <<Confirm>>

\* the key list given to write_key_events at each call site
BatchKeys(site) ==
    CASE site \in {"cont_press", "cont_release", "clk_release1", "clk_release2"} -> keys
      [] site = "cont_heartbeat" -> <<>>
      [] site \in {"cyc_press", "cyc_release"} -> <<keys[kidx]>>
      [] site \in {"clk_confirm1", "clk_confirm2"} -> <<Confirm>>

\* the value given to write_key_events at each call site
BatchValue(site) ==
    IF site \in {"cont_press", "cyc_press", "clk_confirm1", "clk_confirm2"}
    THEN 1 ELSE 0

\* the events of the write at a site: the initial sync (lines 186-189) is one
\* write_event_with_retry, every other site a write_key_events call
SiteEvents(site) ==
    IF site = "init_sync" THEN <<SynReport>>
    ELSE WriteKeyEvents(BatchKeys(site), BatchValue(site))

\* a bug: Click polls RunningFlag between the two steps of a cycle
ContinueClickPollsMidCycle(site) ==
    CASE site = "init_sync" -> IF mode = "Hold" THEN "settle" ELSE "clk_check"
      [] site = "cont_press" -> "cont_check"
      [] site = "cont_heartbeat" -> "cont_check"
      [] site = "cont_release" -> "done"
      [] site = "cyc_press" -> "cyc_hold"
      [] site = "cyc_release" -> IF kidx < Len(keys) THEN "cyc_inner" ELSE "cyc_check"
      [] site = "clk_confirm1" -> "clk_release1"
      [] site = "clk_release1" -> "clk_check"
      [] site = "clk_confirm2" -> "clk_release2"
      [] site = "clk_release2" -> "clk_sleep2"

\* where simulate_keys goes on when the write at a site has returned Ok
Continue(site) ==
    CASE site = "init_sync" -> IF mode = "Hold" THEN "settle" ELSE "clk_check"
      [] site = "cont_press" -> "cont_check"
      [] site = "cont_heartbeat" -> "cont_check"
      [] site = "cont_release" -> "done"
      [] site = "cyc_press" -> "cyc_hold"
      [] site = "cyc_release" -> IF kidx < Len(keys) THEN "cyc_inner" ELSE "cyc_check"
      [] site = "clk_confirm1" -> "clk_release1"
      [] site = "clk_release1" -> "clk_sleep1"
      [] site = "clk_confirm2" -> "clk_release2"
      [] site = "clk_release2" -> "clk_sleep2"

\* a bug: the heartbeat loop of Hold/Continuous goes on when the flag is false
AfterRunningReadNoStop(site, flag) ==
    CASE site = "cont_check" -> "cont_heartbeat"
      [] site = "cyc_check" -> IF flag THEN "cyc_interval" ELSE "done"
      [] site = "cyc_inner" -> IF flag THEN "cyc_press" ELSE "cyc_check"
      [] site = "clk_check" -> IF flag THEN "clk_confirm1" ELSE "done"

\* a bug: Hold/Continuous returns on stop without the release batch
AfterRunningReadNoRelease(site, flag) ==
    CASE site = "cont_check" -> IF flag THEN "cont_heartbeat" ELSE "done"
      [] site = "cyc_check" -> IF flag THEN "cyc_interval" ELSE "done"
      [] site = "cyc_inner" -> IF flag THEN "cyc_press" ELSE "cyc_check"
      [] site = "clk_check" -> IF flag THEN "clk_confirm1" ELSE "done"

\* where each read of RunningFlag leads: the three `while` heads (lines 201,
\* 210, 229) and the `if !running { break }` of the inner loop (line 217)
AfterRunningRead(site, flag) ==
    CASE site = "cont_check" -> IF flag THEN "cont_heartbeat" ELSE "cont_release"
      [] site = "cyc_check" -> IF flag THEN "cyc_interval" ELSE "done"
      [] site = "cyc_inner" -> IF flag THEN "cyc_press" ELSE "cyc_check"
      [] site = "clk_check" -> IF flag THEN "clk_confirm1" ELSE "done"

\* the mutex each read of a shared cell locks: setup_device (line 89), the
\* two snapshots (lines 176, 177), the reads of RunningFlag (lines 201, 210,
\* 217, 229) and of IntervalMs (line 211)
LockAt(site) ==
    CASE site \in {"setup", "snap_keys"} -> "selected_keys"
      [] site = "snap_mode" -> "key_behavior"
      [] site \in {"cont_check", "cyc_check", "cyc_inner", "clk_check"} -> "running"
      [] site = "cyc_interval" -> "interval_ms"
      [] OTHER -> "none"

\* a bug: the guard of a read lives on after the statement that took it
HeldAfterReadKeepsGuard(site, h) == h

\* the guards held once the read at a site is done: in setup_device the
\* guard is dropped at the end of the block (line 103); everywhere else it is
\* a temporary of a `let` statement or of an `if`/`while` condition and is
\* dropped when the value has been copied out
HeldAfterRead(site, h) == h \ {LockAt(site)}

\* a bug: the sleep reads IntervalMs again instead of using the local
PassSleepRereads(local, shared) == Sleep(shared)

\* lines 213 and 221: the sleeps of a pass of Hold/Cycle take the local
\* `interval` read at line 211, not the shared cell
PassSleep(local, shared) == Sleep(local)

\* a bug: the pass over an empty key list does not sleep
AfterIntervalReadNoSleep(ks) ==
    IF ks = <<>> THEN "cyc_check" ELSE "cyc_inner"

\* line 212: `if keys.is_empty()` sends the pass to the sleep of line 213,
\* otherwise the `for` loop of line 216 starts
AfterIntervalRead(ks) ==
    IF ks = <<>> THEN "cyc_sleep_empty" ELSE "cyc_inner"

Init ==
    /\ running = TRUE
    /\ interval_ms \in Intervals
    /\ selected_keys \in KeyLists
    /\ key_behavior \in {"Click", "Hold"}
    /\ hold_behavior \in {"Continuous", "Cycle"}
    /\ pc = "setup"
    /\ uinput_device = None
    /\ keys = <<>>
    /\ mode = "unset"
    /\ interval = 0
    /\ kidx = 1
    /\ idx = 1
    /\ max_retries = MAX_DEVICE_INIT_RETRIES
    /\ rt = RetryStart
    /\ wcall = [keys |-> <<>>, value |-> 0, written |-> <<>>, status |-> "none"]
    /\ trace = <<>>
    /\ iters = 0
    /\ result = None
    /\ held = {}
    /\ device = None
    /\ app_data = NoAppData

\* selected_keys.lock().unwrap() and the other `.lock().unwrap()` of the
\* thread: the mutex is taken (std Mutex is not reentrant).  A loop head
\* that would start a pass beyond MaxIter is not explored.
Lock ==
    /\ LockAt(pc) # "none"
    /\ LockAt(pc) \notin held
    /\ (pc \in {"cont_check", "cyc_check", "clk_check"} /\ running) => iters < MaxIter
    /\ held' = held \cup {LockAt(pc)}
    /\ UNCHANGED <<running, interval_ms, selected_keys, key_behavior,
                   hold_behavior, pc, uinput_device, keys, mode, interval,
                   kidx, idx, max_retries, rt, wcall, trace, iters, result,
                   device, app_data>>

\* setup_device, lines 85-103: the device is configured under the guard of
\* SelectedKeys; a failed UninitDevice::new() or enable() panics
SetupEnable ==
    /\ pc = "setup"
    /\ LockAt(pc) \in held
    /\ held' = HeldAfterRead(pc, held)
    /\ \E o \in SetupOutcomes \ {"create_failed"} :
         LET outcome == SetupDevice(selected_keys, o)
         IN  IF outcome.tag = "Panic"
             THEN /\ pc' = "done"
                  /\ result' = outcome
                  /\ UNCHANGED device
             ELSE /\ pc' = "setup_create"
                  /\ device' = Some(outcome.val)
                  /\ UNCHANGED result
    /\ UNCHANGED <<running, interval_ms, selected_keys, key_behavior,
                   hold_behavior, uinput_device, keys, mode, interval, kidx,
                   idx, max_retries, rt, wcall, trace, iters, app_data>>

\* line 171: create_from_device (line 105) ends one run of setup_device
\* inside setup_device_with_retry
SetupAttempt ==
    /\ pc = "setup_create"
    /\ \E o \in {"ok", "create_failed"} :
         LET outcome == CreateFromDevice(device.val, o)
             r1 == RetryAttempt(rt, max_retries, outcome)
         IN  IF Try(r1.ret)
             THEN /\ pc' = "done"
                  /\ result' = Err(SetupDeviceWithRetryErr(r1.ret.err))
                  /\ rt' = r1
                  /\ UNCHANGED <<uinput_device, max_retries>>
             ELSE IF r1.ret.tag = "None"
             THEN /\ rt' = r1
                  /\ pc' = "setup"
                  /\ UNCHANGED <<uinput_device, max_retries, result>>
             ELSE /\ pc' = "snap_keys"
                  /\ uinput_device' = IF r1.ret.tag = "Ok" THEN Some(r1.ret.val) ELSE None
                  /\ rt' = RetryStart
                  /\ max_retries' = MAX_RETRIES
                  /\ UNCHANGED result
    /\ UNCHANGED <<running, interval_ms, selected_keys, key_behavior,
                   hold_behavior, keys, mode, interval, kidx, idx, wcall,
                   trace, iters, held, device, app_data>>

\* line 176
SnapshotKeys ==
    /\ pc = "snap_keys"
    /\ LockAt(pc) \in held
    /\ keys' = selected_keys
    /\ pc' = "snap_mode"
    /\ UNCHANGED <<running, interval_ms, selected_keys, key_behavior,
                   hold_behavior, uinput_device, mode, interval, kidx, idx,
                   max_retries, rt, wcall, trace, iters, result>>
    /\ held' = HeldAfterRead(pc, held)
    /\ UNCHANGED <<device, app_data>>

\* line 177
SnapshotMode ==
    /\ pc = "snap_mode"
    /\ LockAt(pc) \in held
    /\ mode' = key_behavior
    /\ pc' = "init_sync"
    /\ UNCHANGED <<running, interval_ms, selected_keys, key_behavior,
                   hold_behavior, uinput_device, keys, interval, kidx, idx,
                   max_retries, rt, wcall, trace, iters, result>>
    /\ held' = HeldAfterRead(pc, held)
    /\ UNCHANGED <<device, app_data>>

\* one device.write_event inside write_event_with_retry, for the event at
\* position idx of the write at the current site
WriteEvent ==
    /\ pc \in WriteSites
    /\ \E outcome \in WriteOutcomes :
         LET evs == SiteEvents(pc)
             r1 == RetryAttempt(rt, max_retries, outcome)
             batch == pc # "init_sync"
             cur == IF idx = 1 /\ rt.hist = <<>>
                    THEN [keys |-> BatchKeys(pc), value |-> BatchValue(pc),
                          written |-> <<>>, status |-> "active"]
                    ELSE wcall
             last == idx >= Len(evs)
         IN  IF Try(r1.ret)
             THEN /\ pc' = "done"
                  /\ result' = r1.ret
                  /\ rt' = r1
                  /\ wcall' = IF batch THEN [cur EXCEPT !.status = "err"] ELSE wcall
                  /\ UNCHANGED <<trace, idx, kidx>>
             ELSE IF r1.ret.tag = "None"
             THEN /\ rt' = r1
                  /\ wcall' = IF batch THEN cur ELSE wcall
                  /\ UNCHANGED <<pc, result, trace, idx, kidx>>
             ELSE /\ rt' = RetryStart
                  /\ trace' = IF r1.ret.tag = "Ok" /\ idx <= Len(evs)
                              THEN Append(trace, evs[idx]) ELSE trace
                  /\ wcall' = IF ~batch THEN wcall
                              ELSE [cur EXCEPT
                                      !.written = IF r1.ret.tag = "Ok" /\ idx <= Len(evs)
                                                  THEN Append(@, evs[idx]) ELSE @,
                                      !.status = IF last THEN "ok" ELSE "active"]
                  /\ idx' = IF last THEN 1 ELSE idx + 1
                  /\ pc' = IF last THEN Continue(pc) ELSE pc
                  /\ kidx' = IF last /\ pc = "cyc_release" THEN kidx + 1 ELSE kidx
                  /\ result' = IF last /\ pc = "cont_release" THEN Ok("unit") ELSE result
    /\ UNCHANGED <<running, interval_ms, selected_keys, key_behavior,
                   hold_behavior, uinput_device, keys, mode, interval,
                   max_retries, iters>>
    /\ UNCHANGED <<held, device, app_data>>

\* line 193: the settle delay, then the dispatch on hold_behavior (line 196)
Settle ==
    /\ pc = "settle"
    /\ trace' = Append(trace, SettleSleep)
    /\ pc' = IF hold_behavior = "Continuous" THEN "cont_press" ELSE "cyc_check"
    /\ UNCHANGED <<running, interval_ms, selected_keys, key_behavior,
                   hold_behavior, uinput_device, keys, mode, interval, kidx,
                   idx, max_retries, rt, wcall, iters, result>>
    /\ UNCHANGED <<held, device, app_data>>

\* line 201: `while *running.lock().unwrap()` of Hold/Continuous
ContCheck ==
    /\ pc = "cont_check"
    /\ LockAt(pc) \in held
    /\ running => iters < MaxIter
    /\ pc' = AfterRunningRead(pc, running)
    /\ result' = IF pc' = "done" THEN Ok("unit") ELSE result
    /\ iters' = IF running THEN iters + 1 ELSE iters
    /\ UNCHANGED <<running, interval_ms, selected_keys, key_behavior,
                   hold_behavior, uinput_device, keys, mode, interval, kidx,
                   idx, max_retries, rt, wcall, trace>>
    /\ held' = HeldAfterRead(pc, held)
    /\ UNCHANGED <<device, app_data>>

\* line 210: `while *running.lock().unwrap()` of Hold/Cycle
CycCheck ==
    /\ pc = "cyc_check"
    /\ LockAt(pc) \in held
    /\ running => iters < MaxIter
    /\ pc' = AfterRunningRead(pc, running)
    /\ result' = IF pc' = "done" THEN Ok("unit") ELSE result
    /\ iters' = IF running THEN iters + 1 ELSE iters
    /\ UNCHANGED <<running, interval_ms, selected_keys, key_behavior,
                   hold_behavior, uinput_device, keys, mode, interval, kidx,
                   idx, max_retries, rt, wcall, trace>>
    /\ held' = HeldAfterRead(pc, held)
    /\ UNCHANGED <<device, app_data>>

\* lines 211-212: the interval is read, then keys.is_empty() decides
CycInterval ==
    /\ pc = "cyc_interval"
    /\ LockAt(pc) \in held
    /\ interval' = interval_ms
    /\ kidx' = 1
    /\ pc' = AfterIntervalRead(keys)
    /\ UNCHANGED <<running, interval_ms, selected_keys, key_behavior,
                   hold_behavior, uinput_device, keys, mode, idx,
                   max_retries, rt, wcall, trace, iters, result>>
    /\ held' = HeldAfterRead(pc, held)
    /\ UNCHANGED <<device, app_data>>

\* lines 213-214: sleep one interval and continue
CycSleepEmpty ==
    /\ pc = "cyc_sleep_empty"
    /\ trace' = Append(trace, PassSleep(interval, interval_ms))
    /\ pc' = "cyc_check"
    /\ UNCHANGED <<running, interval_ms, selected_keys, key_behavior,
                   hold_behavior, uinput_device, keys, mode, interval, kidx,
                   idx, max_retries, rt, wcall, iters, result>>
    /\ UNCHANGED <<held, device, app_data>>

\* lines 217-219: the check of RunningFlag before the press of keys[kidx]
CycInner ==
    /\ pc = "cyc_inner"
    /\ LockAt(pc) \in held
    /\ pc' = AfterRunningRead(pc, running)
    /\ UNCHANGED <<running, interval_ms, selected_keys, key_behavior,
                   hold_behavior, uinput_device, keys, mode, interval, kidx,
                   idx, max_retries, rt, wcall, trace, iters, result>>
    /\ held' = HeldAfterRead(pc, held)
    /\ UNCHANGED <<device, app_data>>

\* line 221: the key is held for one interval
CycHold ==
    /\ pc = "cyc_hold"
    /\ trace' = Append(trace, PassSleep(interval, interval_ms))
    /\ pc' = "cyc_release"
    /\ UNCHANGED <<running, interval_ms, selected_keys, key_behavior,
                   hold_behavior, uinput_device, keys, mode, interval, kidx,
                   idx, max_retries, rt, wcall, iters, result>>
    /\ UNCHANGED <<held, device, app_data>>

\* line 229: `while *running.lock().unwrap()` of Click
ClkCheck ==
    /\ pc = "clk_check"
    /\ LockAt(pc) \in held
    /\ running => iters < MaxIter
    /\ pc' = AfterRunningRead(pc, running)
    /\ result' = IF pc' = "done" THEN Ok("unit") ELSE result
    /\ iters' = IF running THEN iters + 1 ELSE iters
    /\ UNCHANGED <<running, interval_ms, selected_keys, key_behavior,
                   hold_behavior, uinput_device, keys, mode, interval, kidx,
                   idx, max_retries, rt, wcall, trace>>
    /\ held' = HeldAfterRead(pc, held)
    /\ UNCHANGED <<device, app_data>>

\* a bug: the last sleep of the Click cycle is left out
ClickSleepsShort(at) ==
    CASE at = "clk_sleep1" -> <<Sleep(1000)>>
      [] at = "clk_sleep2" -> <<Sleep(1000)>>

\* lines 235 and 239-241: the sleeps of Click after each release batch
ClickSleeps(at) ==
    CASE at = "clk_sleep1" -> <<Sleep(1000)>>
      [] at = "clk_sleep2" -> <<Sleep(1000), Sleep(5000)>>

ClkSleep ==
    /\ pc \in {"clk_sleep1", "clk_sleep2"}
    /\ trace' = trace \o ClickSleeps(pc)
    /\ pc' = IF pc = "clk_sleep1" THEN "clk_confirm2" ELSE "clk_check"
    /\ UNCHANGED <<running, interval_ms, selected_keys, key_behavior,
                   hold_behavior, uinput_device, keys, mode, interval, kidx,
                   idx, max_retries, rt, wcall, iters, result>>
    /\ UNCHANGED <<held, device, app_data>>

----------------------------------------------------------------------------
(* The control surface: the other threads write the shared cells.  A run   *)
(* reads SelectedKeys in setup_device and at line 176 and KeyBehaviorMode  *)
(* at line 177 and never again, so writes to these two cells are explored  *)
(* up to the last read of the cell; RunningFlag and IntervalMs are read    *)
(* again and again and are written at any time.                            *)

SetRunning ==
    /\ running' = ~running
    /\ "running" \notin held
    /\ UNCHANGED <<interval_ms, selected_keys, key_behavior, hold_behavior,
                   pc, uinput_device, keys, mode, interval, kidx, idx,
                   max_retries, rt, wcall, trace, iters, result>>
    /\ UNCHANGED <<held, device, app_data>>

SetInterval ==
    /\ \E v \in Intervals \ {interval_ms} : interval_ms' = v
    /\ "interval_ms" \notin held
    /\ UNCHANGED <<running, selected_keys, key_behavior, hold_behavior,
                   pc, uinput_device, keys, mode, interval, kidx, idx,
                   max_retries, rt, wcall, trace, iters, result>>
    /\ UNCHANGED <<held, device, app_data>>

SetSelectedKeys ==
    /\ pc \in {"setup", "setup_create", "snap_keys"}
    /\ "selected_keys" \notin held
    /\ \E ks \in KeyLists \ {selected_keys} : selected_keys' = ks
    /\ UNCHANGED <<running, interval_ms, key_behavior, hold_behavior,
                   pc, uinput_device, keys, mode, interval, kidx, idx,
                   max_retries, rt, wcall, trace, iters, result>>
    /\ UNCHANGED <<held, device, app_data>>

SetKeyBehavior ==
    /\ pc \in {"setup", "setup_create", "snap_keys", "snap_mode"}
    /\ "key_behavior" \notin held
    /\ key_behavior' = IF key_behavior = "Click" THEN "Hold" ELSE "Click"
    /\ UNCHANGED <<running, interval_ms, selected_keys, hold_behavior,
                   pc, uinput_device, keys, mode, interval, kidx, idx,
                   max_retries, rt, wcall, trace, iters, result>>
    /\ UNCHANGED <<held, device, app_data>>

Next ==
    \/ Lock
    \/ SetupEnable
    \/ SetupAttempt
    \/ SnapshotKeys
    \/ SnapshotMode
    \/ WriteEvent
    \/ Settle
    \/ ContCheck
    \/ CycCheck
    \/ CycInterval
    \/ CycSleepEmpty
    \/ CycInner
    \/ CycHold
    \/ ClkCheck
    \/ ClkSleep
    \/ SetRunning
    \/ SetInterval
    \/ SetSelectedKeys
    \/ SetKeyBehavior

Spec == Init /\ [][Next]_vars

----------------------------------------------------------------------------
(* The same run with a control surface that writes SelectedKeys and       *)
(* KeyBehaviorMode after the run has read them for the last time, where    *)
(* Spec explores the writes before that read.                              *)

\* what the control surface makes of SelectedKeys while the run goes on
LateKeyLists == {<<"KEY_B">>}

\* the steps of the simulation thread
Thread ==
    \/ Lock
    \/ SetupEnable
    \/ SetupAttempt
    \/ SnapshotKeys
    \/ SnapshotMode
    \/ WriteEvent
    \/ Settle
    \/ ContCheck
    \/ CycCheck
    \/ CycInterval
    \/ CycSleepEmpty
    \/ CycInner
    \/ CycHold
    \/ ClkCheck
    \/ ClkSleep

SetSelectedKeysLate ==
    /\ pc \notin {"setup", "setup_create", "snap_keys"}
    /\ "selected_keys" \notin held
    /\ \E ks \in LateKeyLists \ {selected_keys} : selected_keys' = ks
    /\ UNCHANGED <<running, interval_ms, key_behavior, hold_behavior,
                   pc, uinput_device, keys, mode, interval, kidx, idx,
                   max_retries, rt, wcall, trace, iters, result, held,
                   device, app_data>>

SetKeyBehaviorLate ==
    /\ pc \notin {"setup", "setup_create", "snap_keys", "snap_mode"}
    /\ "key_behavior" \notin held
    /\ key_behavior' = IF key_behavior = "Click" THEN "Hold" ELSE "Click"
    /\ UNCHANGED <<running, interval_ms, selected_keys, hold_behavior,
                   pc, uinput_device, keys, mode, interval, kidx, idx,
                   max_retries, rt, wcall, trace, iters, result, held,
                   device, app_data>>

NextLate ==
    \/ Thread
    \/ SetRunning
    \/ SetInterval
    \/ SetSelectedKeysLate
    \/ SetKeyBehaviorLate

SpecLate == Init /\ [][NextLate]_vars

----------------------------------------------------------------------------
(* The run on a thread that is scheduled: a sleep ends, a write to the     *)
(* device returns and a free mutex is acquired, so a step of the thread    *)
(* that stays possible is taken.  The control surface writes RunningFlag   *)
(* and IntervalMs, the cells the loops read; the contents of SelectedKeys  *)
(* and KeyBehaviorMode at the two snapshots range over the values of Init. *)

NextLive ==
    \/ Thread
    \/ SetRunning
    \/ SetInterval

SpecLive == Init /\ [][NextLive]_vars /\ WF_vars(Thread)

----------------------------------------------------------------------------
(* Vocabulary of the properties.                                           *)

InContinuous == mode = "Hold" /\ hold_behavior = "Continuous"
InCycle == mode = "Hold" /\ hold_behavior = "Cycle"
InClick == mode = "Click"

ReturnedOk == pc = "done" /\ result = Ok("unit")
ReturnedErr == pc = "done" /\ result.tag = "Err"

\* the key events of the trace, in order
KeyEventsOf(tr) == SelectSeqOp(tr, "key")

\* the positions of tr holding a key event of code k with value v
Writes(tr, k, v) ==
    {i \in DOMAIN tr : tr[i].op = "key" /\ tr[i].code = k /\ tr[i].value = v}

Occurrences(ks, k) == Cardinality({i \in DOMAIN ks : ks[i] = k})

\* every key-down of tr has a later key-up of the same code
EveryDownHasUp(tr) ==
    \A i \in DOMAIN tr :
        (tr[i].op = "key" /\ tr[i].value = 1)
            => \E j \in DOMAIN tr :
                   j > i /\ tr[j].op = "key" /\ tr[j].code = tr[i].code
                         /\ tr[j].value = 0

IsPrefixOf(s, t) == Len(s) <= Len(t) /\ s = SubSeq(t, 1, Len(s))

KeysWith(ks, v) == [i \in 1..Len(ks) |-> KeyEvent(ks[i], v)]

RECURSIVE Repeat(_, _)
Repeat(s, n) == IF n = 0 THEN <<>> ELSE s \o Repeat(s, n - 1)

----------------------------------------------------------------------------
(* C1: Hold/Continuous, normal termination, non-empty snapshot.            *)

\* C1 as claimed: after a run of Hold/Continuous that returned Ok, every key
\* of the snapshot has exactly one value-0 write, and every value-1 write of
\* the key comes before it.
C1_ExactlyOneRelease ==
    (InContinuous /\ ReturnedOk /\ keys # <<>>) =>
        \A i \in DOMAIN keys :
            /\ Cardinality(Writes(trace, keys[i], 0)) = 1
            /\ Writes(trace, keys[i], 1) # {}
            /\ \A d \in Writes(trace, keys[i], 1), u \in Writes(trace, keys[i], 0) : d < u

\* C1 as amended: after a run of Hold/Continuous that returned Ok, every key
\* of the snapshot has as many value-0 writes as value-1 writes, one for each
\* occurrence of the key in the snapshot, and every value-1 write of the key
\* comes before every value-0 write of it.
C1_ReleasedOncePerPress ==
    (InContinuous /\ ReturnedOk /\ keys # <<>>) =>
        \A i \in DOMAIN keys :
            /\ Cardinality(Writes(trace, keys[i], 1)) = Occurrences(keys, keys[i])
            /\ Cardinality(Writes(trace, keys[i], 0)) = Occurrences(keys, keys[i])
            /\ \A d \in Writes(trace, keys[i], 1), u \in Writes(trace, keys[i], 0) : d < u

\* a stopped Hold/Continuous run that held the same key twice through a
\* heartbeat
C1_Witness ==
    /\ InContinuous /\ ReturnedOk
    /\ keys = <<"KEY_A", "KEY_A">>
    /\ iters >= 1

----------------------------------------------------------------------------
(* C2: the exits of Hold/Continuous.                                       *)

\* C2 as claimed: however a Hold/Continuous run has returned, every key-down
\* it emitted has a later key-up of the same key.
C2_EveryExitReleases ==
    (InContinuous /\ pc = "done") => EveryDownHasUp(trace)

\* C2 as amended: a Hold/Continuous run that returned Ok has a later key-up
\* for every key-down it emitted; a run that returned an error wrote only a
\* prefix of the presses followed by the releases, with nothing after the
\* failed write.
C2_NormalExitReleases ==
    /\ (InContinuous /\ ReturnedOk) => EveryDownHasUp(trace)
    /\ (InContinuous /\ ReturnedErr) =>
           IsPrefixOf(KeyEventsOf(trace), KeysWith(keys, 1) \o KeysWith(keys, 0))

\* a stopped Hold/Continuous run over two different keys
C2_Witness ==
    /\ InContinuous /\ ReturnedOk
    /\ Len(keys) = 2 /\ keys[1] # keys[2]
    /\ Len(KeyEventsOf(trace)) = 4

----------------------------------------------------------------------------
(* C3: Hold/Cycle presses and releases one key at a time.                  *)

\* the key events come in pairs: a press, then the release of the same key
PressThenRelease(ke) ==
    \A i \in DOMAIN ke :
        IF i % 2 = 1 THEN ke[i].value = 1
        ELSE ke[i].value = 0 /\ ke[i].code = ke[i - 1].code

\* C3 as claimed: in Hold/Cycle every press is followed by the release of the
\* same key before another key is pressed and before the run ends, so that a
\* run that has ended has left no key pressed.
C3_NoKeyLeftPressed ==
    InCycle =>
        /\ PressThenRelease(KeyEventsOf(trace))
        /\ pc = "done" => Len(KeyEventsOf(trace)) % 2 = 0

\* C3 as amended: in Hold/Cycle every press is followed by the release of the
\* same key before another key is pressed; RunningFlag is read only while no
\* key is pressed; a run that returned Ok has left no key pressed, and a run
\* that ended with a key pressed ended with the error of a failed write.
C3_PressThenReleaseUnlessWriteFails ==
    InCycle =>
        /\ PressThenRelease(KeyEventsOf(trace))
        /\ pc \in {"cyc_check", "cyc_inner"} => Len(KeyEventsOf(trace)) % 2 = 0
        /\ ReturnedOk => Len(KeyEventsOf(trace)) % 2 = 0
        /\ (pc = "done" /\ Len(KeyEventsOf(trace)) % 2 = 1) =>
               (result.tag = "Err" /\ result.err.kind = "KeySimulation")

\* a Hold/Cycle run over [A, B] stopped between the release of A and the
\* press of B
C3_Witness ==
    /\ InCycle /\ ReturnedOk
    /\ keys = <<"KEY_A", "KEY_B">>
    /\ KeyEventsOf(trace) = <<KeyEvent("KEY_A", 1), KeyEvent("KEY_A", 0)>>

----------------------------------------------------------------------------
(* C4: one write_key_events call.                                          *)

\* C4 as claimed: every call of write_key_events that has returned wrote one
\* key event per key with the given value in the order of the list, and then
\* one synchronization event, its last event.
C4_EveryCallEndsWithSync ==
    wcall.status \in {"ok", "err"} =>
        wcall.written = KeysWith(wcall.keys, wcall.value) \o <<SynReport>>

\* C4 as amended: a call of write_key_events that returned Ok wrote one key
\* event per key with the given value in the order of the list, and then one
\* synchronization event, its last event; a call that has not returned Ok
\* wrote a prefix of the key events and no synchronization event.
C4_OkCallKeysThenSync ==
    /\ wcall.status = "ok" =>
           wcall.written = KeysWith(wcall.keys, wcall.value) \o <<SynReport>>
    /\ wcall.status \in {"active", "err"} =>
           IsPrefixOf(wcall.written, KeysWith(wcall.keys, wcall.value))

\* a returned call over two different keys
C4_Witness ==
    /\ wcall.status = "ok"
    /\ Len(wcall.keys) = 2 /\ wcall.keys[1] # wcall.keys[2]

----------------------------------------------------------------------------
(* C5: a write that fails after its retries ends the run.                  *)

\* the simulation thread took a step at a write site that wrote no event
\* although it was the last attempt retry allows: the write has failed
WriteFailsNow ==
    /\ pc \in WriteSites
    /\ Len(rt.hist) = max_retries - 1
    /\ <<pc, rt, idx>>' # <<pc, rt, idx>>
    /\ trace' = trace

\* C5: the step in which a write fails for the last time returns from
\* simulate_keys with the Key-Simulation error of that write, after exactly
\* MAX_RETRIES attempts, and from then on no event is written, no write is
\* attempted and the result stays.
C5_FailedWriteEndsRun ==
    /\ [][WriteFailsNow =>
            /\ pc' = "done"
            /\ Len(rt'.hist) = MAX_RETRIES
            /\ result' = rt'.ret
            /\ result'.tag = "Err"
            /\ result'.err.kind = "KeySimulation"]_vars
    /\ [][pc = "done" => (pc' = "done" /\ trace' = trace /\ rt' = rt
                          /\ wcall' = wcall /\ result' = result)]_vars

\* a run ended by the failure of the second key event of a batch of two: the
\* first key was written, the second key and the sync were not
C5_Witness ==
    /\ ReturnedErr
    /\ result.err.kind = "KeySimulation"
    /\ wcall.status = "err"
    /\ Len(wcall.keys) = 2
    /\ Len(wcall.written) = 1
    /\ trace[Len(trace)] = wcall.written[1]

----------------------------------------------------------------------------
(* C8: device creation fails on every attempt.                             *)

AllFailed(h) == \A i \in DOMAIN h : h[i].tag = "Err"

\* C8: a run returns the Device-Initialization error exactly when
\* MAX_DEVICE_INIT_RETRIES runs of setup_device have failed; the error carries
\* that count, no device exists and nothing was written to any device.
C8_InitExhausted ==
    /\ (result.tag = "Err" /\ result.err.kind = "DeviceInitialization") =>
           /\ pc = "done"
           /\ Len(rt.hist) = MAX_DEVICE_INIT_RETRIES
           /\ AllFailed(rt.hist)
           /\ result.err.retries = MAX_DEVICE_INIT_RETRIES
           /\ uinput_device = None
           /\ trace = <<>>
           /\ wcall.status = "none"
    /\ (uinput_device = None /\ Len(rt.hist) = MAX_DEVICE_INIT_RETRIES
            /\ AllFailed(rt.hist)) =>
           /\ pc = "done"
           /\ result.tag = "Err"
           /\ result.err.kind = "DeviceInitialization"
    /\ (uinput_device = None /\ pc # "done") =>
           (pc \in {"setup", "setup_create"} /\ Len(rt.hist) < MAX_DEVICE_INIT_RETRIES)

\* the run has given up creating the device
C8_Witness ==
    /\ pc = "done"
    /\ result.tag = "Err"
    /\ result.err.kind = "DeviceInitialization"
    /\ Len(rt.hist) = MAX_DEVICE_INIT_RETRIES

----------------------------------------------------------------------------
(* C9: how a failure inside setup_device surfaces.                         *)

\* C9 as claimed: a run that ends without a device ends with a
\* Device-Initialization error value, whatever failed in setup_device.
C9_CreationFailureIsError ==
    (pc = "done" /\ uinput_device = None) =>
        (result.tag = "Err" /\ result.err.kind = "DeviceInitialization")

----------------------------------------------------------------------------
(* C10: the writes and sleeps of the Click cycles.                         *)

\* one step of the cycle as the claim lists it: one sync per step
ClaimedClickStep(ks) ==
    <<KeyEvent(Confirm, 1)>> \o KeysWith(ks, 0) \o <<SynReport, Sleep(1000)>>

\* one step of the cycle with a sync after the confirmation key-down too
SyncedClickStep(ks) ==
    <<KeyEvent(Confirm, 1), SynReport>> \o KeysWith(ks, 0)
        \o <<SynReport, Sleep(1000)>>

ClickCyclesDone == InClick /\ iters >= 1 /\ (pc = "clk_check" \/ ReturnedOk)

\* C10 as claimed: after the initial sync, the writes and sleeps of the full
\* cycles of a Click run are, per cycle: confirm-down, the value-0 events of
\* the snapshot keys, sync, sleep 1000, the same again, sleep 5000.
C10_ClickCycleAsClaimed ==
    ClickCyclesDone =>
        trace = <<SynReport>>
                  \o Repeat(ClaimedClickStep(keys) \o ClaimedClickStep(keys)
                              \o <<Sleep(5000)>>, iters)

\* C10 as amended: after the initial sync, the writes and sleeps of the full
\* cycles of a Click run are, per cycle: confirm-down, sync, the value-0
\* events of the snapshot keys, sync, sleep 1000, the same again, sleep 5000.
C10_ClickCycleWithBothSyncs ==
    ClickCyclesDone =>
        trace = <<SynReport>>
                  \o Repeat(SyncedClickStep(keys) \o SyncedClickStep(keys)
                              \o <<Sleep(5000)>>, iters)

\* two full Click cycles over [A, B]
C10_Witness ==
    /\ InClick /\ pc = "clk_check"
    /\ keys = <<"KEY_A", "KEY_B">>
    /\ iters = 2

----------------------------------------------------------------------------
(* C6, C7: the retry harness, under SpecRetry.                             *)

Failures(h) == Cardinality({i \in DOMAIN h : h[i].tag = "Err"})

\* C6: retry invokes the operation at most max_retries times and only after
\* failures; it returns the first success, or after max_retries failures the
\* error of the last invocation.
C6_RetryResult ==
    /\ Len(rt.hist) <= max_retries
    /\ \A i \in DOMAIN rt.hist : i < Len(rt.hist) => rt.hist[i].tag = "Err"
    /\ pc = "retry" => (AllFailed(rt.hist) /\ Len(rt.hist) < max_retries)
    /\ pc = "retry_done" =>
           /\ rt.hist # <<>>
           /\ LET last == rt.hist[Len(rt.hist)]
              IN  IF last.tag = "Ok" THEN result = last
                  ELSE Len(rt.hist) = max_retries /\ result = Err(last.err)

\* three attempts that all failed, the last with another error than the first
C6_Witness ==
    /\ pc = "retry_done"
    /\ max_retries = 3
    /\ rt.hist = <<Err("e1"), Err("e1"), Err("e2")>>
    /\ result = Err("e2")

\* C7: log_fn is called and the delay slept once for each failed attempt but
\* the max_retries-th, with the 1-based number of the attempt: k failures
\* before a success give log_fn(1) .. log_fn(k), max_retries failures give
\* log_fn(1) .. log_fn(max_retries - 1), and max_retries = 1 gives none.
C7_RetryObserver ==
    LET retried == IF Failures(rt.hist) = max_retries
                   THEN max_retries - 1 ELSE Failures(rt.hist)
    IN  /\ rt.log = [i \in 1..retried |-> i]
        /\ rt.sleeps = retried
        /\ (pc = "retry_done" /\ max_retries = 1) =>
               (Len(rt.hist) = 1 /\ rt.log = <<>> /\ rt.sleeps = 0)
        /\ (pc = "retry_done" /\ rt.hist[1].tag = "Ok") =>
               (rt.log = <<>> /\ rt.sleeps = 0)

\* two failures, then a success on the third and last attempt
C7_Witness ==
    /\ pc = "retry_done"
    /\ max_retries = 3
    /\ Len(rt.hist) = 3
    /\ result.tag = "Ok"
    /\ rt.log = <<1, 2>>

----------------------------------------------------------------------------
(* C11: Click reads RunningFlag at the cycle boundary only.                *)

ClickCycleSites ==
    {"clk_confirm1", "clk_release1", "clk_sleep1", "clk_confirm2",
     "clk_release2", "clk_sleep2"}

\* the order of the statements of one Click cycle (lines 233-241)
ClickSuccessor(site) ==
    CASE site = "clk_confirm1" -> "clk_release1"
      [] site = "clk_release1" -> "clk_sleep1"
      [] site = "clk_sleep1" -> "clk_confirm2"
      [] site = "clk_confirm2" -> "clk_release2"
      [] site = "clk_release2" -> "clk_sleep2"
      [] site = "clk_sleep2" -> "clk_check"

\* C11: inside a Click cycle the thread never takes the lock of RunningFlag;
\* whatever the flag holds, every statement of the cycle is followed by the
\* next one unless a write fails, the sleeps are 1000, then 1000 and 5000; at
\* the boundary a true flag starts the next cycle and a false flag returns Ok
\* without an event, and nothing is written after the return.
C11_ClickPollsAtBoundaryOnly ==
    /\ [](pc \in ClickCycleSites => "running" \notin held)
    /\ [][(pc \in ClickCycleSites /\ pc' # pc) =>
            \/ pc' = ClickSuccessor(pc)
            \/ pc \in WriteSites /\ pc' = "done" /\ result'.tag = "Err"]_vars
    /\ [][(pc = "clk_sleep1" /\ pc' # pc) =>
            trace' = Append(trace, Sleep(1000))]_vars
    /\ [][(pc = "clk_sleep2" /\ pc' # pc) =>
            trace' = trace \o <<Sleep(1000), Sleep(5000)>>]_vars
    /\ [][(pc = "clk_check" /\ pc' # pc) =>
            IF running THEN pc' = "clk_confirm1" /\ trace' = trace
            ELSE pc' = "done" /\ result' = Ok("unit") /\ trace' = trace]_vars
    /\ [][pc = "done" => (pc' = "done" /\ trace' = trace)]_vars

\* the flag was set to false during a cycle that started with it true, and
\* the second step of that cycle has been carried out all the same
C11_Witness ==
    /\ InClick /\ pc = "clk_sleep2"
    /\ ~running
    /\ keys = <<"KEY_A">>

----------------------------------------------------------------------------
(* C12: Hold/Cycle over an empty snapshot.                                 *)

\* the entries of tr that are not sleeps: what was written to the device
DeviceWrites(tr) ==
    SelectSeq(tr, LAMBDA e : e.op # "sleep")

\* the sleeps of tr that follow the settle delay
LoopSleeps(tr) ==
    SelectSeq(tr, LAMBDA e : e.op = "sleep" /\ e # SettleSleep)

\* C12: in Hold/Cycle with an empty snapshot, once the initial sync has been
\* written the run writes nothing more to the device; it is at the loop head,
\* in a pass or has returned Ok, and what it did after the settle delay is
\* one sleep of one interval for every pass it has completed.
C12_EmptyCycleOnlySleeps ==
    (InCycle /\ keys = <<>> /\ trace # <<>>) =>
        /\ DeviceWrites(trace) = <<SynReport>>
        /\ trace[1] = SynReport
        /\ pc \in {"settle", "cyc_check", "cyc_interval", "cyc_sleep_empty", "done"}
        /\ pc = "done" => result = Ok("unit")
        /\ pc # "settle" =>
               /\ trace[2] = SettleSleep
               /\ Len(trace) = 2 + Len(LoopSleeps(trace))
               /\ \A i \in 3..Len(trace) : \E v \in Intervals : trace[i] = Sleep(v)
               /\ Len(LoopSleeps(trace)) =
                      IF pc \in {"cyc_interval", "cyc_sleep_empty"}
                      THEN iters - 1 ELSE iters

\* two passes over the empty snapshot, then the flag was read false
C12_Witness ==
    /\ InCycle /\ keys = <<>>
    /\ ReturnedOk
    /\ Len(LoopSleeps(trace)) = 2

----------------------------------------------------------------------------
(* C13: Hold/Cycle reads IntervalMs once per pass.                         *)

CyclePassSites == {"cyc_inner", "cyc_press", "cyc_hold", "cyc_release"}

\* the number of keys the current pass has held for their full time
HeldInPass == (kidx - 1) + (IF pc = "cyc_release" THEN 1 ELSE 0)

\* C13: in Hold/Cycle the lock of IntervalMs is taken at the top of a pass
\* only, which is entered from the loop head only; the local interval changes
\* there only, to the value IntervalMs has then; every key of the pass is
\* held for that local value, whatever IntervalMs has become; and all the
\* sleeps the current pass has done are sleeps of the local value.
C13_IntervalReadOncePerPass ==
    /\ []("interval_ms" \in held => pc = "cyc_interval")
    /\ [][(pc' = "cyc_interval" /\ pc # "cyc_interval") => pc = "cyc_check"]_vars
    /\ [][interval' # interval => pc = "cyc_interval"]_vars
    /\ [][(pc = "cyc_interval" /\ pc' # pc) => interval' = interval_ms]_vars
    /\ [][(pc \in {"cyc_hold", "cyc_sleep_empty"} /\ pc' # pc) =>
            trace' = Append(trace, Sleep(interval))]_vars
    /\ []((InCycle /\ pc \in CyclePassSites) =>
            LET ls == LoopSleeps(trace)
            IN  /\ Len(ls) >= HeldInPass
                /\ \A i \in (Len(ls) - HeldInPass + 1)..Len(ls) :
                       ls[i] = Sleep(interval))

\* the second key of a pass has been held for the interval read at the top
\* of the pass although IntervalMs holds another value by now
C13_Witness ==
    /\ InCycle /\ pc = "cyc_release"
    /\ kidx = 2
    /\ interval # interval_ms
    /\ trace[Len(trace)] = Sleep(interval)

----------------------------------------------------------------------------
(* C14: the locks of the simulation thread.                                *)

\* where the thread sleeps: the loop sleeps, and the delay of retry after a
\* failed create_from_device; retry also sleeps between the attempts of a
\* write, at the write sites
SleepSites ==
    {"setup_create", "settle", "cyc_sleep_empty", "cyc_hold", "clk_sleep1",
     "clk_sleep2"}

\* C14: where the thread sleeps or writes to the device it holds no lock and
\* the control surface can write RunningFlag and IntervalMs; it never holds
\* two locks; a lock it holds is the one of the read it is about to do, and
\* its next step does that read and gives the lock back.
C14_NoLockAcrossSleepOrWrite ==
    /\ [](pc \in WriteSites \cup SleepSites =>
            held = {} /\ ENABLED SetRunning /\ ENABLED SetInterval)
    /\ [](Cardinality(held) <= 1)
    /\ [](held \subseteq {LockAt(pc)})
    /\ [][held # {} =>
            \/ held' = held /\ pc' = pc
            \/ held' = {} /\ pc' # pc]_vars

\* the thread has pressed, slept and released the first key of a pass and
\* holds the lock of RunningFlag for the check before the second
C14_Witness ==
    /\ pc = "cyc_inner" /\ kidx = 2
    /\ held = {"running"}
    /\ Len(LoopSleeps(trace)) = 1
    /\ Len(KeyEventsOf(trace)) = 2

----------------------------------------------------------------------------
(* C15: the capabilities of the created device.                            *)

\* left, middle and right mouse button, relative X and Y motion
MouseBaseline == {"BTN_LEFT", "BTN_MIDDLE", "BTN_RIGHT", "REL_X", "REL_Y"}

CodesOf(ks) == {ks[i] : i \in DOMAIN ks}

\* C15: a run of setup_device enables, under the lock of SelectedKeys, the
\* baseline and the codes SelectedKeys holds then, and nothing else; the
\* device of the run is created once, by the attempt that succeeds, with the
\* codes that attempt enabled, and keeps them.
C15_CapabilitiesAreBaselinePlusSelection ==
    /\ [][device' # device =>
            /\ pc = "setup" /\ "selected_keys" \in held
            /\ selected_keys' = selected_keys
            /\ device' = Some(MouseBaseline \cup CodesOf(selected_keys))]_vars
    /\ [][uinput_device' # uinput_device =>
            /\ uinput_device = None /\ pc = "setup_create"
            /\ uinput_device' = device]_vars
    /\ [](uinput_device # None =>
            /\ uinput_device = device
            /\ MouseBaseline \subseteq uinput_device.val
            /\ uinput_device.val \ MouseBaseline \subseteq KeyCodes)

\* the device was created while KEY_A alone was selected; the selection has
\* changed since
C15_Witness ==
    /\ pc = "snap_keys"
    /\ uinput_device = Some(MouseBaseline \cup {"KEY_A"})
    /\ selected_keys = <<"KEY_B">>

----------------------------------------------------------------------------
(* initialize_simulation_keys (lines 131-160), explored on its own.        *)

\* longest list of raw identifiers in the AppData
MaxRaw == 3

\* raw identifiers of the configuration: two that map, one that has a device
\* key code but no EV_KEY, one that has no device key code
RawKeys == {"a", "b", "fn", "zz"}

\* key_utils::raw_key_to_device_keycode (called at line 145)
RawKeyToDeviceKeycode(raw) ==
    CASE raw = "a" -> Some(38)
      [] raw = "b" -> Some(56)
      [] raw = "fn" -> Some(151)
      [] OTHER -> None

\* key_utils::keycode_to_evkey (called at line 146)
KeycodeToEvkey(device_key) ==
    CASE device_key = 38 -> Some("KEY_A")
      [] device_key = 56 -> Some("KEY_B")
      [] OTHER -> None

\* lines 144-153: the `for raw in &app_data.selected_keys` loop, from the
\* output list out; log collects the warnings
RECURSIVE InitKeysLoop(_, _, _)
InitKeysLoop(raws, out, log) ==
    IF raws = <<>> THEN [selected_keys |-> out, log |-> log]
    ELSE LET raw == Head(raws)
             device_key == RawKeyToDeviceKeycode(raw)
         IN  IF device_key # None
             THEN LET ev_key == KeycodeToEvkey(device_key.val)
                  IN  IF ev_key # None
                      THEN InitKeysLoop(Tail(raws), Append(out, ev_key.val), log)
                      ELSE InitKeysLoop(Tail(raws), out, log)
             ELSE InitKeysLoop(Tail(raws), out,
                               Append(log, <<"Failed to map key", raw>>))

\* a bug: the output list is not cleared
InitializeSimulationKeysNoClear(app, sel, kb) ==
    LET loop == InitKeysLoop(app.selected_keys, sel, <<>>)
    IN  [selected_keys |-> loop.selected_keys,
         key_behavior |-> app.key_behavior,
         log |-> IF loop.selected_keys = <<>>
                 THEN Append(loop.log, <<"No valid keys initialized">>)
                 ELSE loop.log,
         ret |-> [tag |-> "Unit"]]

\* initialize_simulation_keys(app_data, selected_keys, key_behavior): the
\* contents of the two outputs when it returns, the warnings it logged and
\* its return value `()`
InitializeSimulationKeys(app, sel, kb) ==
    LET loop == InitKeysLoop(app.selected_keys, <<>>, <<>>)
    IN  [selected_keys |-> loop.selected_keys,
         key_behavior |-> app.key_behavior,
         log |-> IF loop.selected_keys = <<>>
                 THEN Append(loop.log, <<"No valid keys initialized">>)
                 ELSE loop.log,
         ret |-> [tag |-> "Unit"]]

InitKeysInit ==
    /\ pc = "init_keys"
    /\ app_data \in [selected_keys : SeqsUpTo(RawKeys, MaxRaw),
                      key_behavior : {"Click", "Hold"}]
    /\ selected_keys \in KeyLists
    /\ key_behavior \in {"Click", "Hold"}
    /\ result = None
    /\ running = FALSE
    /\ interval_ms = 50
    /\ hold_behavior = "Continuous"
    /\ uinput_device = None
    /\ keys = <<>>
    /\ mode = "unset"
    /\ interval = 0
    /\ kidx = 1
    /\ idx = 1
    /\ max_retries = MAX_RETRIES
    /\ rt = RetryStart
    /\ wcall = [keys |-> <<>>, value |-> 0, written |-> <<>>, status |-> "none"]
    /\ trace = <<>>
    /\ iters = 0
    /\ held = {}
    /\ device = None

\* the control surface calls initialize_simulation_keys on the two cells
InitKeysCall ==
    /\ pc = "init_keys"
    /\ LET out == InitializeSimulationKeys(app_data, selected_keys, key_behavior)
       IN  /\ selected_keys' = out.selected_keys
           /\ key_behavior' = out.key_behavior
           /\ result' = [tag |-> out.ret.tag, log |-> out.log]
    /\ pc' = "init_keys_done"
    /\ UNCHANGED <<running, interval_ms, hold_behavior, uinput_device, keys,
                   mode, interval, kidx, idx, max_retries, rt, wcall, trace,
                   iters, held, device, app_data>>

InitKeysNext == InitKeysCall

SpecInitKeys == InitKeysInit /\ [][InitKeysNext]_vars

----------------------------------------------------------------------------
(* C16: what initialize_simulation_keys leaves in its outputs.             *)

\* both mapping stages succeed on raw
Mappable(raw) ==
    /\ RawKeyToDeviceKeycode(raw) # None
    /\ KeycodeToEvkey(RawKeyToDeviceKeycode(raw).val) # None

EvKeyOf(raw) == KeycodeToEvkey(RawKeyToDeviceKeycode(raw).val).val

\* C16: when initialize_simulation_keys has returned, the output mode is the
\* configured key behavior and the output list is, whatever it held before,
\* the EV_KEY codes of the raw identifiers that pass both mapping stages, in
\* input order with duplicates; the others are skipped, and the function
\* returns `()` whether or not any key is left.
C16_InitializeKeepsMappedKeys ==
    pc = "init_keys_done" =>
        LET kept == SelectSeq(app_data.selected_keys, Mappable)
        IN  /\ key_behavior = app_data.key_behavior
            /\ selected_keys = [i \in 1..Len(kept) |-> EvKeyOf(kept[i])]
            /\ result.tag = "Unit"

\* [a, fn, a] over an output list that held [KEY_B]: fn passes the first
\* stage only and is skipped, a is kept twice
C16_Witness ==
    /\ pc = "init_keys_done"
    /\ app_data.selected_keys = <<"a", "fn", "a">>
    /\ selected_keys = <<"KEY_A", "KEY_A">>
    /\ result.log = <<>>

----------------------------------------------------------------------------
(* C17: keys left down by a cancelled run.                                 *)

\* C17 as claimed: when a run has returned Ok, in whatever mode, every code
\* with a key-down in the trace has a later key-up in the trace.
C17_NoKeyStuckAfterCancel ==
    ReturnedOk => EveryDownHasUp(trace)

----------------------------------------------------------------------------
(* C20: emitted key codes against the capabilities of the device.          *)

\* C20 as claimed: every key event written to the device of a run has a code
\* that is a capability of that device.
C20_EmittedCodesAreCapabilities ==
    uinput_device # None =>
        \A i \in DOMAIN trace :
            trace[i].op = "key" => trace[i].code \in uinput_device.val

----------------------------------------------------------------------------
(* C18: one snapshot, one initial sync, one path; under SpecLate.          *)

ClickSites == ClickCycleSites \cup {"clk_check"}
ContinuousSites == {"cont_press", "cont_check", "cont_heartbeat", "cont_release"}
CycleSites ==
    CyclePassSites \cup {"cyc_check", "cyc_interval", "cyc_sleep_empty"}
BeforeSnapshot == {"setup", "setup_create", "snap_keys", "snap_mode"}

\* the positions of the key events of tr
KeyPositions(tr) == {i \in DOMAIN tr : tr[i].op = "key"}

\* C18: the key list and the mode are each copied once, right after the
\* device exists, and the copies never change; the first thing written is a
\* sync and it is the only sync before the first key event; the run is on
\* the Click path exactly when the copied mode is Click and otherwise on the
\* Hold path HoldBehaviorMode names, starting with the settle delay, and never
\* on another; and every key event has a code of the copied list, or is the
\* key-down of the confirmation key in Click.
C18_OneSnapshotOnePath ==
    /\ [][keys' # keys =>
            pc = "snap_keys" /\ uinput_device # None /\ keys' = selected_keys]_vars
    /\ [][mode' # mode =>
            pc = "snap_mode" /\ mode = "unset" /\ mode' = key_behavior]_vars
    /\ [][(pc \notin BeforeSnapshot) => (pc' \notin BeforeSnapshot)]_vars
    /\ [][(pc = "snap_keys" /\ pc' # pc) => pc' = "snap_mode"]_vars
    /\ [][(pc = "snap_mode" /\ pc' # pc) => pc' = "init_sync"]_vars
    /\ [](pc \in BeforeSnapshot \cup {"init_sync"} => trace = <<>>)
    /\ [](trace # <<>> => trace[1] = SynReport)
    /\ [](KeyPositions(trace) # {} =>
            LET first == CHOOSE p \in KeyPositions(trace) :
                             \A q \in KeyPositions(trace) : p <= q
            IN  {j \in 1..(first - 1) : trace[j] = SynReport} = {1})
    /\ [](pc \in ClickSites => InClick)
    /\ [](pc \in ContinuousSites => InContinuous)
    /\ [](pc \in CycleSites => InCycle)
    /\ [](pc = "settle" => mode = "Hold")
    /\ [](InClick => (SettleSleep \notin CodesOf(trace)
                        /\ \A e \in CodesOf(trace) : e.op = "sleep" => e.ms \in {1000, 5000}))
    /\ [](mode = "Hold" => (Len(trace) >= 2 => trace[2] = SettleSleep))
    /\ [](InContinuous => LoopSleeps(trace) = <<>>)
    /\ [](InCycle => \A e \in CodesOf(LoopSleeps(trace)) : e.ms \in Intervals)
    /\ [](\A i \in KeyPositions(trace) :
            \/ trace[i].code \in CodesOf(keys)
            \/ InClick /\ trace[i] = KeyEvent(Confirm, 1))

\* a Hold/Cycle run is in its second pass over [A, B] although the control
\* surface has set the mode to Click and the selection to [B] since
C18_Witness ==
    /\ InCycle /\ pc = "cyc_press" /\ kidx = 1
    /\ iters = 2
    /\ keys = <<"KEY_A", "KEY_B">>
    /\ key_behavior = "Click"
    /\ selected_keys = <<"KEY_B">>

----------------------------------------------------------------------------
(* C19: cancellation, under SpecLive.                                      *)

\* the reads of RunningFlag
PollSites == {"cont_check", "cyc_check", "cyc_inner", "clk_check"}

\* the events the step has appended to the trace
Appended == SubSeq(trace', Len(trace) + 1, Len(trace'))

\* C19: if from some point on RunningFlag is false, the run returns.  A poll
\* that reads false writes nothing and leaves the loop body: Hold/Continuous
\* goes to its release batch, the inner poll of Hold/Cycle to the loop head,
\* the loop heads of Hold/Cycle and Click return Ok; and in the release
\* batch and after the return no key-down is written.
C19_CancellationReturns ==
    /\ (<>[](~running)) => <>(pc = "done")
    /\ [][(pc \in PollSites /\ "running" \in held /\ ~running /\ pc' # pc) =>
            /\ trace' = trace
            /\ pc' = (CASE pc = "cont_check" -> "cont_release"
                         [] pc = "cyc_inner" -> "cyc_check"
                         [] OTHER -> "done")
            /\ (pc' = "done" => result' = Ok("unit"))]_vars
    /\ [][(pc \in {"cont_release", "done"}) =>
            /\ pc' \in {"cont_release", "done"}
            /\ (\A i \in DOMAIN Appended :
                    ~(Appended[i].op = "key" /\ Appended[i].value = 1))]_vars

\* a Hold/Cycle run was cancelled while it held the first of two keys: it
\* released that key, pressed no other and returned Ok
C19_Witness ==
    /\ InCycle /\ ReturnedOk /\ ~running
    /\ keys = <<"KEY_A", "KEY_B">>
    /\ KeyEventsOf(trace) = <<KeyEvent("KEY_A", 1), KeyEvent("KEY_A", 0)>>

====
